---- MODULE Spec2Model ----
(***************************************************************************)
(* Model of the data layer of omega-topology-fullstack:                    *)
(*   - HoParameterSet / HoParameter / MitabParameter (HoParameter.ts),     *)
(*     the homology support of one candidate link and its trim filter;     *)
(*   - PSICQuic (PSICQuic.ts and its later revision), the deduplicating    *)
(*     store of MI Tab records indexed by unordered pairs.                 *)
(* JavaScript numbers are modelled as extended rationals (finite, +/-Inf,  *)
(* NaN) with IEEE comparison semantics; rounding is not modelled.          *)
(***************************************************************************)
EXTENDS Integers, Sequences, FiniteSets, TLC

(***************************************************************************)
(* Bounds of the model.                                                    *)
(***************************************************************************)
MaxRows == 2
MaxEvidence == 1

(***************************************************************************)
(* JavaScript numbers.                                                     *)
(***************************************************************************)
NaN == [k |-> "nan", n |-> 0, d |-> 1]
PosInf == [k |-> "inf", n |-> 1, d |-> 1]
NegInf == [k |-> "inf", n |-> -1, d |-> 1]
Fin(n, d) == [k |-> "fin", n |-> n, d |-> d]

Sgn(i) == IF i > 0 THEN 1 ELSE IF i < 0 THEN -1 ELSE 0
Abs(i) == IF i < 0 THEN -i ELSE i
InfOf(s) == IF s < 0 THEN NegInf ELSE PosInf

\* a + b
NumAdd(a, b) ==
    IF a.k = "nan" \/ b.k = "nan" THEN NaN
    ELSE IF a.k = "inf" /\ b.k = "inf" THEN (IF a.n = b.n THEN a ELSE NaN)
    ELSE IF a.k = "inf" THEN a
    ELSE IF b.k = "inf" THEN b
    ELSE Fin(a.n * b.d + b.n * a.d, a.d * b.d)

\* a - b
NumSub(a, b) == NumAdd(a, [b EXCEPT !.n = -b.n])

\* a * b
NumMul(a, b) ==
    IF a.k = "nan" \/ b.k = "nan" THEN NaN
    ELSE IF a.k = "inf" \/ b.k = "inf"
         THEN (IF a.n = 0 \/ b.n = 0 THEN NaN ELSE InfOf(Sgn(a.n) * Sgn(b.n)))
    ELSE Fin(a.n * b.n, a.d * b.d)

\* a / b (a zero divisor is +0: it comes from an integer subtraction)
NumDiv(a, b) ==
    IF a.k = "nan" \/ b.k = "nan" THEN NaN
    ELSE IF a.k = "inf" /\ b.k = "inf" THEN NaN
    ELSE IF a.k = "inf" THEN InfOf(Sgn(a.n) * (IF b.n < 0 THEN -1 ELSE 1))
    ELSE IF b.k = "inf" THEN Fin(0, 1)
    ELSE IF b.n = 0 THEN (IF a.n = 0 THEN NaN ELSE InfOf(Sgn(a.n)))
    ELSE Fin(a.n * b.d * Sgn(b.n), a.d * Abs(b.n))

\* the order of two numbers neither of which is NaN
NumBelow(a, b) ==
    IF a.k = "inf" /\ b.k = "inf" THEN a.n < b.n
    ELSE IF a.k = "inf" THEN a.n < 0
    ELSE IF b.k = "inf" THEN b.n > 0
    ELSE a.n * b.d < b.n * a.d

\* a < b, a > b, a >= b, a <= b: every comparison with NaN is false
NumLt(a, b) == a.k # "nan" /\ b.k # "nan" /\ NumBelow(a, b)
NumGt(a, b) == NumLt(b, a)
NumGe(a, b) == a.k # "nan" /\ b.k # "nan" /\ ~NumBelow(a, b)
NumLe(a, b) == NumGe(b, a)

(***************************************************************************)
(* Field strings of a homology vector and their conversions.  The fields   *)
(* that occur in the model are listed; parseInt and Number are given as    *)
(* what JavaScript returns on each of them (any other string is not a      *)
(* number).                                                                *)
(***************************************************************************)
parseInt(s) ==
    CASE s = "100" -> Fin(100, 1)
      [] s = "50" -> Fin(50, 1)
      [] s = "45" -> Fin(45, 1)
      [] s = "40" -> Fin(40, 1)
      [] s = "5" -> Fin(5, 1)
      [] s = "1" -> Fin(1, 1)
      [] s = "0.01" -> Fin(0, 1)
      [] OTHER -> NaN

Number(s) ==
    CASE s = "100" -> Fin(100, 1)
      [] s = "50" -> Fin(50, 1)
      [] s = "45" -> Fin(45, 1)
      [] s = "40" -> Fin(40, 1)
      [] s = "5" -> Fin(5, 1)
      [] s = "1" -> Fin(1, 1)
      [] s = "0.01" -> Fin(1, 100)
      [] s = "" -> Fin(0, 1)
      [] OTHER -> NaN

\* data[i] of a JavaScript array (0-based); a missing element is undefined
Field(data, i) == IF i + 1 <= Len(data) THEN data[i + 1] ELSE "undefined"

(***************************************************************************)
(* HoParameter: the derived values of one homology support.                *)
(***************************************************************************)
length(data) ==
    NumAdd(NumSub(parseInt(Field(data, 3)), parseInt(Field(data, 2))), Fin(1, 1))

template(data) == Field(data, 0)

simPct(data) == NumDiv(NumMul(Fin(100, 1), Number(Field(data, 7))), length(data))

idPct(data) == NumDiv(NumMul(Fin(100, 1), Number(Field(data, 8))), length(data))

cvPct(data) == NumDiv(NumMul(Fin(100, 1), length(data)), parseInt(Field(data, 1)))

eValue(data) == Number(Field(data, 9))

\* new HoParameter(hVector)
HoParameter(hVector) == [data |-> hVector, valid |-> TRUE]

\* new MitabParameter(d)
MitabParameter(d) == [data |-> d, valid |-> TRUE]

(***************************************************************************)
(* Inputs.                                                                 *)
(***************************************************************************)
\* length 50, similarity 80 %, identity 90 %, coverage 50 %, e-value 0.01
VecGood == <<"P1", "100", "1", "50", "-", "-", "-", "40", "45", "0.01">>
\* the similar-residue count is not a number: similarity is NaN
VecNaN == <<"P2", "100", "1", "50", "-", "-", "-", "abc", "45", "0.01">>
\* e-value 5: above the default maximum of 1
VecWeak == <<"P3", "100", "1", "50", "-", "-", "-", "40", "45", "5">>
\* VecGood with the boundaries between its three unused fields moved
VecShift == <<"P1", "100", "1", "50", "--", "", "-", "40", "45", "0.01">>

Vectors == {VecGood, VecNaN, VecWeak, VecShift}

\* the (low, high) vectors handed to add
AddInputs ==
    {<<VecGood, VecGood>>, <<VecNaN, VecGood>>, <<VecGood, VecNaN>>, <<VecWeak, VecGood>>,
     <<VecShift, VecGood>>}

\* PSQData as seen by trim: a detection method and the taxon ids
Evidences ==
    { [interactionDetectionMethod |-> "MI:0018", taxid |-> <<"9606">>],
      [interactionDetectionMethod |-> "MI:0096", taxid |-> <<"9606", "10090">>] }

Undefined == [def |-> FALSE, set |-> {}]
SetOf(s) == [def |-> TRUE, set |-> s]

\* the threshold settings tried: the defaults; one equal to each of VecGood's four
\* values; one above VecGood's similarity
Thresholds ==
    { [simPct |-> Fin(0, 1), idPct |-> Fin(0, 1), cvPct |-> Fin(0, 1), eValue |-> Fin(1, 1)],
      [simPct |-> Fin(80, 1), idPct |-> Fin(90, 1), cvPct |-> Fin(50, 1), eValue |-> Fin(1, 100)],
      [simPct |-> Fin(85, 1), idPct |-> Fin(0, 1), cvPct |-> Fin(0, 1), eValue |-> Fin(1, 1)] }

\* the options object of trim
TrimOptions ==
    { [simPct |-> t.simPct, idPct |-> t.idPct, cvPct |-> t.cvPct, eValue |-> t.eValue,
       exp_methods |-> m, taxons |-> x,
       definitive |-> df, logged |-> lg, destroy_identical |-> di] :
         t \in Thresholds,
         m \in {Undefined, SetOf({"MI:0018"})},
         x \in {Undefined, SetOf({"9606"})},
         df \in BOOLEAN, lg \in BOOLEAN, di \in BOOLEAN }

\* trim({}): every default
DefaultOptions ==
    [simPct |-> Fin(0, 1), idPct |-> Fin(0, 1), cvPct |-> Fin(0, 1), eValue |-> Fin(1, 1),
     exp_methods |-> Undefined, taxons |-> Undefined,
     definitive |-> FALSE, logged |-> FALSE, destroy_identical |-> FALSE]

\* the objects handed to HoParameterSet.from
SnapRows == {[data |-> VecGood, valid |-> TRUE], [data |-> VecNaN, valid |-> FALSE]}
SnapSeqs == {<<>>} \cup {<<r>> : r \in SnapRows}
Snapshots ==
    [lowQueryParam : SnapSeqs, highQueryParam : SnapSeqs,
     visible : {"true", "false", "undefined"}]

(***************************************************************************)
(* State.                                                                  *)
(***************************************************************************)
VARIABLES
    lowQueryParam,   \* HoParameterSet.lowQueryParam
    highQueryParam,  \* HoParameterSet.highQueryParam
    mitabCouples,    \* HoParameterSet.mitabCouples
    visible,         \* HoParameterSet.visible: "true", "false" or "undefined"
    last,            \* the last call on the set: its name, options and outcome
    stores,          \* the PSICQuic instances: records, registredPublications, keep_raw
    lastCall,        \* the last call on a PSICQuic instance
    graph,           \* what topology() returned, if it was the last call on "T"
    flushed          \* the PSICQuic instances on which flushRaw() has been called

setVars == <<lowQueryParam, highQueryParam, mitabCouples, visible, last>>
storeVars == <<stores, lastCall, graph, flushed>>
vars ==
    <<lowQueryParam, highQueryParam, mitabCouples, visible, last, stores, lastCall, graph,
      flushed>>

\* a call on the set: its name and options, whether it threw, and for trim the
\* number of rows of its pass and its locals to_remove and hashes at its end
Call(op, o, threw, n, to_remove, hashes) ==
    [op |-> op, o |-> o, threw |-> threw, n |-> n, to_remove |-> to_remove,
     hashes |-> hashes]

Min(a, b) == IF a < b THEN a ELSE b

(***************************************************************************)
(* HoParameterSet.trim.                                                    *)
(***************************************************************************)
\* the four getters of a HoParameter, evaluated once for each vector of the model
Getters ==
    [data \in Vectors |->
        [simPct |-> simPct(data), idPct |-> idPct(data),
         cvPct |-> cvPct(data), eValue |-> eValue(data)]]

\* the logged branch: valid unless some comparison says it fails
LoggedValid(data, o) ==
    ~( NumLt(Getters[data].simPct, o.simPct)
       \/ NumLt(Getters[data].idPct, o.idPct)
       \/ NumLt(Getters[data].cvPct, o.cvPct)
       \/ NumGt(Getters[data].eValue, o.eValue) )

\* the unlogged branch: valid if every comparison says it passes
UnloggedValid(data, o) ==
    /\ NumGe(Getters[data].simPct, o.simPct)
    /\ NumGe(Getters[data].idPct, o.idPct)
    /\ NumGe(Getters[data].cvPct, o.cvPct)
    /\ NumLe(Getters[data].eValue, o.eValue)

ThresholdValid(data, o) ==
    IF o.logged THEN LoggedValid(data, o) ELSE UnloggedValid(data, o)

SetAll(group, b) == [j \in 1..Len(group) |-> [group[j] EXCEPT !.valid = b]]

Every(seq, S) == \A j \in 1..Len(seq) : seq[j] \in S
Some(seq, S) == \E j \in 1..Len(seq) : seq[j] \in S

TAXON_EVERY == 0
TAXON_SOME == 1
DEFAULT_TAXON_SEARCH_MODE == TAXON_EVERY

\* l.valid = exp_methods.has(l.data.interactionDetectionMethod)
ExpFilter(group, o) ==
    IF o.exp_methods.def
    THEN [j \in 1..Len(group) |->
            [group[j] EXCEPT !.valid =
                group[j].data.interactionDetectionMethod \in o.exp_methods.set]]
    ELSE group

\* l.valid = !l.valid ? false : taxid.every / taxid.some
TaxonFilter(group, o) ==
    IF o.taxons.def
    THEN [j \in 1..Len(group) |->
            [group[j] EXCEPT !.valid =
                IF ~group[j].valid THEN FALSE
                ELSE IF DEFAULT_TAXON_SEARCH_MODE = TAXON_EVERY
                     THEN Every(group[j].data.taxid, o.taxons.set)
                     ELSE Some(group[j].data.taxid, o.taxons.set)]]
    ELSE group

AnyValid(group) == \E j \in 1..Len(group) : group[j].valid

RECURSIVE Join(_)
\* data.join('')
Join(data) == IF data = <<>> THEN "" ELSE Head(data) \o Join(Tail(data))

\* the "mini-hash" of a row
Hash(loData, hiData) == Join(loData) \o "~" \o Join(hiData)

\* mutant of IsDuplicate: no key is ever found among the keys seen
IsDuplicateNever(hash, hashes) == FALSE

\* hash in hashes
IsDuplicate(hash, hashes) == hash \in hashes

\* mutant of ResetGroup: the lines of the group keep the flags they have
ResetGroupNever(g, o, hasGroup) == g

\* if (!exp_methods && this.mitabCouples[index]): every line of the group is valid again
ResetGroup(g, o, hasGroup) == IF ~o.exp_methods.def /\ hasGroup THEN SetAll(g, TRUE) ELSE g

SetGroup(mitab, i, group) == IF i <= Len(mitab) THEN [mitab EXCEPT ![i] = group] ELSE mitab

\* One turn of the loop of trim on row i (1-based) of the accumulated state
\* acc = [low, high, mitab, to_remove, hashes, threw], once the threshold tests
\* of lines 133-185 have given loV and hiV.
TrimRowFrom(acc, i, o, loV, hiV) ==
    LET hasGroup == i <= Len(acc.mitab)
        g0 == IF hasGroup THEN acc.mitab[i] ELSE <<>>
        g1 == ResetGroup(g0, o, hasGroup)
        filtering == (o.exp_methods.def \/ o.taxons.def) /\ loV /\ hiV
        g2 == IF filtering /\ hasGroup THEN TaxonFilter(ExpFilter(g1, o), o) ELSE g1
        throws == filtering /\ ~hasGroup
        v == IF filtering THEN AnyValid(g2) ELSE loV /\ hiV
        g3 == IF ~v /\ hasGroup THEN SetAll(g2, FALSE) ELSE g2
        rm1 == IF ~v THEN Append(acc.to_remove, i) ELSE acc.to_remove
        hash == Hash(acc.low[i].data, acc.high[i].data)
        rm2 == IF o.destroy_identical /\ IsDuplicate(hash, acc.hashes) THEN Append(rm1, i) ELSE rm1
        hs == IF o.destroy_identical THEN acc.hashes \cup {hash} ELSE acc.hashes
    IN  IF throws
        THEN [acc EXCEPT !.low[i].valid = loV, !.high[i].valid = hiV,
                         !.mitab = SetGroup(acc.mitab, i, g1), !.threw = TRUE]
        ELSE [acc EXCEPT !.low[i].valid = v, !.high[i].valid = v,
                         !.mitab = SetGroup(acc.mitab, i, g3),
                         !.to_remove = rm2, !.hashes = hs]

\* One turn of the loop of trim (each threshold test is evaluated once).
TrimRow(acc, i, o) ==
    CHOOSE r \in {TrimRowFrom(acc, i, o, loV, hiV) :
                    loV \in {ThresholdValid(acc.low[i].data, o)},
                    hiV \in {ThresholdValid(acc.high[i].data, o)}} : TRUE

RECURSIVE TrimPass(_, _, _, _)
\* for (const [index, parameters] of enumerate(this)): rows i..n, until a throw
TrimPass(acc, i, n, o) ==
    IF i > n \/ acc.threw THEN acc
    ELSE CHOOSE r \in {TrimPass(a, i + 1, n, o) : a \in {TrimRow(acc, i, o)}} : TRUE

InSeq(x, s) == \E j \in 1..Len(s) : s[j] = x

RECURSIVE WithoutShifting(_, _, _)
\* mutant of Without: the marked indices are spliced out one after the other, each
\* taken as an index of the array as it then is (i: the next element of rm)
WithoutShifting(s, rm, i) ==
    IF i > Len(rm) THEN s
    ELSE WithoutShifting(
            IF rm[i] <= Len(s)
            THEN SubSeq(s, 1, rm[i] - 1) \o SubSeq(s, rm[i] + 1, Len(s))
            ELSE s,
            rm, i + 1)

RECURSIVE Without(_, _, _)
\* array.filter((_, index) => !to_remove.includes(index)), from index i on
Without(s, rm, i) ==
    IF i > Len(s) THEN <<>>
    ELSE (IF InSeq(i, rm) THEN <<>> ELSE <<s[i]>>) \o Without(s, rm, i + 1)

\* if (definitive) { ... }
Compact(acc) ==
    [acc EXCEPT !.low = Without(acc.low, acc.to_remove, 1),
                !.high = Without(acc.high, acc.to_remove, 1),
                !.mitab = Without(acc.mitab, acc.to_remove, 1)]

\* the set after trim(o) on the set [low, high, mitab]; threw: a TypeError ended it
Trim(low, high, mitab, o) ==
    LET acc0 == [low |-> low, high |-> high, mitab |-> mitab,
                 to_remove |-> <<>>, hashes |-> {}, threw |-> FALSE]
    IN  CHOOSE r \in {IF ~acc1.threw /\ o.definitive THEN Compact(acc1) ELSE acc1 :
                       acc1 \in {TrimPass(acc0, 1, Min(Len(low), Len(high)), o)}} : TRUE

(***************************************************************************)
(* The operations of HoParameterSet.                                       *)
(***************************************************************************)
add(x, y) ==
    /\ Len(lowQueryParam) < MaxRows
    /\ Len(highQueryParam) < MaxRows
    /\ Len(mitabCouples) < MaxRows
    /\ lowQueryParam' = Append(lowQueryParam, HoParameter(x))
    /\ highQueryParam' = Append(highQueryParam, HoParameter(y))
    /\ mitabCouples' = Append(mitabCouples, <<>>)
    /\ last' = Call("add", DefaultOptions, FALSE, 0, <<>>, {})
    /\ UNCHANGED <<visible, storeVars>>

\* the owner of the set records one MI Tab line as support of row i
attach(i, d) ==
    /\ i \in 1..Len(mitabCouples)
    /\ Len(mitabCouples[i]) < MaxEvidence
    /\ mitabCouples' = [mitabCouples EXCEPT ![i] = Append(@, MitabParameter(d))]
    /\ last' = Call("attach", DefaultOptions, FALSE, 0, <<>>, {})
    /\ UNCHANGED <<lowQueryParam, highQueryParam, visible, storeVars>>

trim(o) ==
    \E r \in {Trim(lowQueryParam, highQueryParam, mitabCouples, o)} :
        /\ visible' = "true"
        /\ lowQueryParam' = r.low
        /\ highQueryParam' = r.high
        /\ mitabCouples' = r.mitab
        /\ last' = Call("trim", o, r.threw, Min(Len(lowQueryParam), Len(highQueryParam)),
                        r.to_remove, r.hashes)
        /\ UNCHANGED storeVars

remove ==
    /\ lowQueryParam' = <<>>
    /\ highQueryParam' = <<>>
    /\ visible' = "false"
    /\ last' = Call("remove", DefaultOptions, FALSE, 0, <<>>, {})
    /\ UNCHANGED <<mitabCouples, storeVars>>

from(obj) ==
    /\ lowQueryParam' = [j \in 1..Len(obj.lowQueryParam) |->
            [HoParameter(obj.lowQueryParam[j].data) EXCEPT !.valid = obj.lowQueryParam[j].valid]]
    /\ highQueryParam' = [j \in 1..Len(obj.highQueryParam) |->
            [HoParameter(obj.highQueryParam[j].data) EXCEPT !.valid = obj.highQueryParam[j].valid]]
    /\ mitabCouples' = <<>>
    /\ visible' = obj.visible
    /\ last' = Call("from", DefaultOptions, FALSE, 0, <<>>, {})
    /\ UNCHANGED storeVars

\* Array.prototype.filter(e => e.valid)
FilterValid(s) == SelectSeq(s, LAMBDA e : e.valid)

RECURSIVE ValidGroups(_, _, _)
\* the groups toString pushes while it filters lowQueryParam: for every valid
\* row from index i on that has a group, the data of the valid lines of the group
ValidGroups(low, mitab, i) ==
    IF i > Len(low) THEN <<>>
    ELSE (IF low[i].valid /\ i <= Len(mitab)
          THEN <<[j \in 1..Len(FilterValid(mitab[i])) |-> FilterValid(mitab[i])[j].data]>>
          ELSE <<>>) \o ValidGroups(low, mitab, i + 1)

\* toString(): the keys and values of the JSON text
toString(low, high, mitab) ==
    [lowQueryParam |-> FilterValid(low),
     highQueryParam |-> FilterValid(high),
     mitabCouples |-> ValidGroups(low, mitab, 1)]

\* obj.visible of a parsed object: undefined when the text has no such key
VisibleOf(obj) == IF "visible" \in DOMAIN obj THEN obj.visible ELSE "undefined"

\* HoParameterSet.from(obj): the fields of the new set
fromObj(obj) ==
    [lowQueryParam |-> [j \in 1..Len(obj.lowQueryParam) |->
            [HoParameter(obj.lowQueryParam[j].data) EXCEPT !.valid = obj.lowQueryParam[j].valid]],
     highQueryParam |-> [j \in 1..Len(obj.highQueryParam) |->
            [HoParameter(obj.highQueryParam[j].data) EXCEPT !.valid = obj.highQueryParam[j].valid]],
     mitabCouples |-> <<>>,
     visible |-> VisibleOf(obj)]

\* the set is replaced by HoParameterSet.from(JSON.parse(set.toString()))
restore ==
    \E p \in {fromObj(toString(lowQueryParam, highQueryParam, mitabCouples))} :
        /\ lowQueryParam' = p.lowQueryParam
        /\ highQueryParam' = p.highQueryParam
        /\ mitabCouples' = p.mitabCouples
        /\ visible' = p.visible
        /\ last' = Call("restore", DefaultOptions, FALSE, 0, <<>>, {})
        /\ UNCHANGED storeVars

(***************************************************************************)
(* PSICQuic: the store of MI Tab records.                                  *)
(*                                                                         *)
(* A line of text is a record of its characters (text) and of the fields   *)
(* the PSQData parser reads from it.  The records map is a                 *)
(* ReversibleKeyMap: a sequence of entries [keys, value] in insertion      *)
(* order, looked up by a couple of keys in either order.                   *)
(***************************************************************************)
Line1 == [text |-> <<"1">>, ids |-> <<"A", "B">>, pmid |-> "100", source |-> "IntAct"]
\* the same couple the other way round; the publication of Line1, from another source
Line2 == [text |-> <<"2">>, ids |-> <<"B", "A">>, pmid |-> "100", source |-> "MINT"]
Line3 == [text |-> <<"3">>, ids |-> <<"B", "C">>, pmid |-> "200", source |-> "IntAct"]
\* a line one of whose interactors has no UniProt accession
Line4 == [text |-> <<"4">>, ids |-> <<"C", "EBI-1">>, pmid |-> "300", source |-> "IntAct"]
Comment == [text |-> <<"#", "c">>, ids |-> <<"", "">>, pmid |-> "", source |-> ""]
Empty == [text |-> <<>>, ids |-> <<"", "">>, pmid |-> "", source |-> ""]

DataLines == {Line1, Line2, Line3}
Ids == {"A", "B", "C"}

\* the arguments of readLines
LineArrays ==
    {<<l>> : l \in DataLines} \cup {<<Comment, Line1, Empty, Line2>>, <<Line3, Line1>>}

NoRaw == <<>>

\* new PSQData(line, keep_raw)
PSQData(line, keep_raw) ==
    [ids |-> line.ids, pmid |-> line.pmid, source |-> line.source,
     content |-> line.text, raw |-> IF keep_raw THEN line.text ELSE NoRaw]

\* PSQData.equal: the contents are the same (the raw text kept or not is no content)
equal(a, b) == a.content = b.content

toLowerCase(s) ==
    CASE s = "IntAct" -> "intact"
      [] s = "MINT" -> "mint"
      [] OTHER -> s

\* ReversibleKeyMap
EntryOf(m, k1, k2) ==
    CHOOSE j \in 1..Len(m) : m[j].keys = <<k1, k2>> \/ m[j].keys = <<k2, k1>>

RKM_hasCouple(m, k1, k2) ==
    \E j \in 1..Len(m) : m[j].keys = <<k1, k2>> \/ m[j].keys = <<k2, k1>>

RKM_get(m, k1, k2) == m[EntryOf(m, k1, k2)].value

RKM_set(m, k1, k2, v) ==
    IF RKM_hasCouple(m, k1, k2)
    THEN [m EXCEPT ![EntryOf(m, k1, k2)].value = v]
    ELSE Append(m, [keys |-> <<k1, k2>>, value |-> v])

\* new PSICQuic(mode, keep_raw)
NewStore(keep_raw) ==
    [records |-> <<>>, registredPublications |-> <<>>, keep_raw |-> keep_raw]

hasCouple(st, id1, id2) == RKM_hasCouple(st.records, id1, id2)

\* mutant of getCouple: the couple is looked up in the order given only
getCoupleOrdered(st, id1, id2) ==
    IF \E j \in 1..Len(st.records) : st.records[j].keys = <<id1, id2>>
    THEN st.records[CHOOSE j \in 1..Len(st.records) : st.records[j].keys = <<id1, id2>>].value
    ELSE <<>>

getCouple(st, id1, id2) ==
    IF hasCouple(st, id1, id2) THEN RKM_get(st.records, id1, id2) ELSE <<>>

\* PSICQuic.ts, the earlier revision: getLines is what getCouple became
getLines(st, id1, id2) ==
    IF hasCouple(st, id1, id2) THEN RKM_get(st.records, id1, id2) ELSE <<>>

\* mutant of addOne: the record is pushed without the test for an equal one
addOneUnchecked(st, psq) ==
    [st EXCEPT !.records =
        RKM_set(@, psq.ids[1], psq.ids[2],
                Append(getCouple(st, psq.ids[1], psq.ids[2]), psq))]

\* the body of the loop of add, for one record
addOne(st, psq) ==
    LET id1 == psq.ids[1]
        id2 == psq.ids[2]
        actual_array == getCouple(st, id1, id2)
    IN  IF \A j \in 1..Len(actual_array) : ~equal(actual_array[j], psq)
        THEN [st EXCEPT !.records = RKM_set(@, id1, id2, Append(actual_array, psq))]
        ELSE st

RECURSIVE PSICQuic_add(_, _)
\* add(...psqs)
PSICQuic_add(st, psqs) ==
    IF psqs = <<>> THEN st
    ELSE CHOOSE r \in {PSICQuic_add(s1, Tail(psqs)) : s1 \in {addOne(st, Head(psqs))}} : TRUE

\* update(psq) of the earlier revision
update(st, psq) ==
    LET id1 == psq.ids[1]
        id2 == psq.ids[2]
        actual_array == getLines(st, id1, id2)
    IN  IF \A j \in 1..Len(actual_array) : ~equal(actual_array[j], psq)
        THEN [st EXCEPT !.records = RKM_set(@, id1, id2, Append(actual_array, psq))]
        ELSE st

\* checkPsqData: [ok, st], the answer and the store with the publication registered
checkPsqData(st, psqDataObj) ==
    LET pmid == psqDataObj.pmid
        source == toLowerCase(psqDataObj.source)
        known == \E j \in 1..Len(st.registredPublications) :
                    st.registredPublications[j].pmid = pmid
        stored == (CHOOSE j \in 1..Len(st.registredPublications) :
                    st.registredPublications[j].pmid = pmid)
    IN  IF ~known
        THEN [ok |-> TRUE,
              st |-> [st EXCEPT !.registredPublications =
                        Append(@, [pmid |-> pmid, source |-> source])]]
        ELSE [ok |-> st.registredPublications[stored].source = source, st |-> st]

\* every record of a records map, in the order of iteration
RECURSIVE Flatten(_)
Flatten(m) == IF m = <<>> THEN <<>> ELSE Head(m).value \o Flatten(Tail(m))

RECURSIVE plusFromUnchecked(_, _)
\* mutant of plusFrom: the records of other are pushed without the test of add
plusFromUnchecked(st, entries) ==
    IF entries = <<>> THEN st
    ELSE plusFromUnchecked(
            [st EXCEPT !.records =
                RKM_set(@, Head(entries).keys[1], Head(entries).keys[2],
                        getCouple(st, Head(entries).keys[1], Head(entries).keys[2])
                            \o Head(entries).value)],
            Tail(entries))

\* plus(other): this.add(...value) for every entry of other.records
RECURSIVE plusFrom(_, _)
plusFrom(st, entries) ==
    IF entries = <<>> THEN st
    ELSE CHOOSE r \in {plusFrom(s1, Tail(entries)) :
                        s1 \in {PSICQuic_add(st, Head(entries).value)}} : TRUE

plus(st, other) == plusFrom(st, other.records)

\* plus(other) of the earlier revision: a line is registered only if checkPsqData accepts it
RECURSIVE plusCheckedFrom(_, _)
plusCheckedFrom(st, lines) ==
    IF lines = <<>> THEN st
    ELSE CHOOSE r \in {plusCheckedFrom(IF c.ok THEN update(c.st, Head(lines)) ELSE c.st,
                                       Tail(lines)) :
                        c \in {checkPsqData(st, Head(lines))}} : TRUE

plusChecked(st, other) == plusCheckedFrom(st, Flatten(other.records))

\* parseLine(line)
parseLine(st, line) ==
    IF Len(line.text) = 0 \/ line.text[1] = "#" THEN st
    ELSE addOne(st, PSQData(line, st.keep_raw))

RECURSIVE readLines(_, _)
\* readLines(str), str an array of lines
readLines(st, str) ==
    IF str = <<>> THEN st
    ELSE CHOOSE r \in {readLines(s1, Tail(str)) : s1 \in {parseLine(st, Head(str))}} : TRUE

\* mutant of flushRaw: the records lose their raw line and keep_raw is left as it is
flushRawOnce(st) ==
    [st EXCEPT !.records = [j \in 1..Len(st.records) |->
                    [st.records[j] EXCEPT !.value =
                        [n \in 1..Len(st.records[j].value) |->
                            [st.records[j].value[n] EXCEPT !.raw = NoRaw]]]]]

\* flushRaw(): keep_raw is switched off and every record loses its raw line
flushRaw(st) ==
    [st EXCEPT !.keep_raw = FALSE,
               !.records = [j \in 1..Len(st.records) |->
                    [st.records[j] EXCEPT !.value =
                        [n \in 1..Len(st.records[j].value) |->
                            [st.records[j].value[n] EXCEPT !.raw = NoRaw]]]]]

\* the order of the accessions
Rank(id) == CASE id = "A" -> 1 [] id = "B" -> 2 [] id = "C" -> 3 [] OTHER -> 4

NoPair == [def |-> FALSE, ref |-> 0, ids |-> <<>>]

\* PSQData.uniprotPair of the k-th record iterated: undefined if an interactor
\* has no accession, else an array of the two accessions, the record's own
uniprotPair(psq, k) ==
    IF psq.ids[1] \in Ids /\ psq.ids[2] \in Ids
    THEN [def |-> TRUE, ref |-> k,
          ids |-> IF Rank(psq.ids[1]) <= Rank(psq.ids[2])
                  THEN psq.ids ELSE <<psq.ids[2], psq.ids[1]>>]
    ELSE NoPair

NoGraph == [def |-> FALSE, nodes |-> {}, edges |-> <<>>]

\* Map.prototype.get / has on a key that is an array: the same array, not an
\* array with the same elements
SameKeyRef(k1, k2) == k1.ref = k2.ref

RECURSIVE topologyFrom(_, _, _)
\* the loop of topology() from the k-th record of ps on
topologyFrom(acc, ps, k) ==
    IF k > Len(ps) THEN acc
    ELSE LET p == ps[k]
             t == uniprotPair(p, k)
             found == {j \in 1..Len(acc.edges) : SameKeyRef(acc.edges[j].key, t)}
         IN  IF ~t.def THEN topologyFrom(acc, ps, k + 1)
             ELSE topologyFrom(
                    [def |-> TRUE,
                     nodes |-> acc.nodes \cup {t.ids[1], t.ids[2]},
                     edges |-> IF found # {}
                               THEN [acc.edges EXCEPT ![CHOOSE j \in found : TRUE].value =
                                        Append(@, p)]
                               ELSE Append(acc.edges, [key |-> t, value |-> <<p>>])],
                    ps, k + 1)

\* topology(): [nodes, edges]
topology(st) == topologyFrom([NoGraph EXCEPT !.def = TRUE], Flatten(st.records), 1)

(***************************************************************************)
(* The calls on the PSICQuic instances "T" and "S".                        *)
(***************************************************************************)
StoreNames == {"T", "S"}

NoRecord == PSQData(Empty, FALSE)

StoreCall(op, self, other, psq) ==
    [op |-> op, self |-> self, other |-> other, psq |-> psq]

callReadLines(s, str) ==
    /\ stores' = [stores EXCEPT ![s] = readLines(@, str)]
    /\ lastCall' = StoreCall("readLines", s, s, NoRecord)
    /\ graph' = NoGraph
    /\ UNCHANGED <<flushed, setVars>>

callAdd(s, psq) ==
    /\ stores' = [stores EXCEPT ![s] = PSICQuic_add(@, <<psq>>)]
    /\ lastCall' = StoreCall("add", s, s, psq)
    /\ graph' = NoGraph
    /\ UNCHANGED <<flushed, setVars>>

callPlus(s, t) ==
    /\ stores' = [stores EXCEPT ![s] = plus(@, stores[t])]
    /\ lastCall' = StoreCall("plus", s, t, NoRecord)
    /\ graph' = NoGraph
    /\ UNCHANGED <<flushed, setVars>>

callPlusChecked(s, t) ==
    /\ stores' = [stores EXCEPT ![s] = plusChecked(@, stores[t])]
    /\ lastCall' = StoreCall("plusChecked", s, t, NoRecord)
    /\ graph' = NoGraph
    /\ UNCHANGED <<flushed, setVars>>

callFlushRaw(s) ==
    /\ stores' = [stores EXCEPT ![s] = flushRaw(@)]
    /\ lastCall' = StoreCall("flushRaw", s, s, NoRecord)
    /\ flushed' = flushed \cup {s}
    /\ graph' = NoGraph
    /\ UNCHANGED setVars

callTopology(s) ==
    /\ graph' = topology(stores[s])
    /\ lastCall' = StoreCall("topology", s, s, NoRecord)
    /\ UNCHANGED <<stores, flushed, setVars>>

Init ==
    /\ lowQueryParam = <<>>
    /\ highQueryParam = <<>>
    /\ mitabCouples = <<>>
    /\ visible = "true"
    /\ last = Call("new", DefaultOptions, FALSE, 0, <<>>, {})
    /\ stores = [s \in StoreNames |-> NewStore(FALSE)]
    /\ lastCall = StoreCall("new", "T", "T", NoRecord)
    /\ graph = NoGraph
    /\ flushed = {}

Next ==
    \/ \E xy \in AddInputs : add(xy[1], xy[2])
    \/ \E i \in 1..MaxRows, d \in Evidences : attach(i, d)
    \/ \E o \in TrimOptions : trim(o)
    \/ remove
    \/ \E obj \in Snapshots : from(obj)
    \/ restore

Spec == Init /\ [][Next]_vars

\* the calls on the stores: "T" is read into, added to and merged into; "S" is read into
StoreNext ==
    \/ \E s \in StoreNames, str \in LineArrays : callReadLines(s, str)
    \/ \E l \in DataLines, k \in BOOLEAN : callAdd("T", PSQData(l, k))
    \/ \E t \in StoreNames : callPlus("T", t)
    \/ \E t \in StoreNames : callPlusChecked("T", t)

\* a new, empty set; "T" = new PSICQuic("LOOSE", keep_raw) and "S" = new PSICQuic
StoreInit ==
    /\ lowQueryParam = <<>>
    /\ highQueryParam = <<>>
    /\ mitabCouples = <<>>
    /\ visible = "true"
    /\ last = Call("new", DefaultOptions, FALSE, 0, <<>>, {})
    /\ \E k \in BOOLEAN : stores = [s \in StoreNames |-> NewStore(s = "T" /\ k)]
    /\ lastCall = StoreCall("new", "T", "T", NoRecord)
    /\ graph = NoGraph
    /\ flushed = {}

StoreSpec == StoreInit /\ [][StoreNext]_vars

\* the calls on the stores with flushRaw() and topology() on "T"
FlushNext ==
    \/ \E str \in {<<Line1>>, <<Line3>>, <<Line2, Line3>>} : callReadLines("T", str)
    \/ callReadLines("S", <<Line1, Line3>>)
    \/ \E l \in {Line2, Line4}, k \in BOOLEAN : callAdd("T", PSQData(l, k))
    \/ callPlus("T", "S")
    \/ callFlushRaw("T")
    \/ callTopology("T")

FlushSpec == StoreInit /\ [][FlushNext]_vars

(***************************************************************************)
(* The claims.                                                             *)
(***************************************************************************)

\* C1: in every reachable state of a HoParameterSet the three sequences
\* lowQueryParam, highQueryParam and mitabCouples have the same length.
C1_SameLength ==
    /\ Len(lowQueryParam) = Len(highQueryParam)
    /\ Len(highQueryParam) = Len(mitabCouples)

\* no two records of one couple's array are equal
NoDuplicates(st) ==
    \A e \in 1..Len(st.records) :
        \A i, j \in 1..Len(st.records[e].value) :
            i # j => ~equal(st.records[e].value[i], st.records[e].value[j])

\* the array under the couple of record p holds a record equal to p
HoldsEqual(st, p) ==
    \E j \in 1..Len(getCouple(st, p.ids[1], p.ids[2])) :
        equal(getCouple(st, p.ids[1], p.ids[2])[j], p)

\* C2: no couple's array ever holds two equal records, and add of a record
\* equal to one stored under the same couple leaves that array as it was.
C2_NoEqualRecords ==
    [][ /\ \A s \in StoreNames : NoDuplicates(stores'[s])
        /\ (lastCall'.op = "add" /\ HoldsEqual(stores[lastCall'.self], lastCall'.psq))
            => getCouple(stores'[lastCall'.self], lastCall'.psq.ids[1], lastCall'.psq.ids[2])
                = getCouple(stores[lastCall'.self], lastCall'.psq.ids[1], lastCall'.psq.ids[2])
      ]_vars

\* C2's case: add was given a record equal to the one stored, yet another object
\* (its raw text differs), and the couple's array still holds one record.
C2_Witness ==
    /\ lastCall.op = "add"
    /\ LET arr == getCouple(stores[lastCall.self], lastCall.psq.ids[1], lastCall.psq.ids[2])
       IN  /\ Len(arr) = 1
           /\ equal(arr[1], lastCall.psq)
           /\ arr[1] # lastCall.psq

\* C3: merging is idempotent: after plus(other), a second plus(other) changes no
\* record of the store, and plus of a store into itself changes none either
\* (in both revisions of plus).
C3_MergeIdempotent ==
    /\ lastCall.op = "plus" =>
         plus(stores[lastCall.self], stores[lastCall.other]).records
            = stores[lastCall.self].records
    /\ lastCall.op = "plusChecked" =>
         plusChecked(stores[lastCall.self], stores[lastCall.other]).records
            = stores[lastCall.self].records
    /\ \A s \in StoreNames :
         /\ plus(stores[s], stores[s]).records = stores[s].records
         /\ plusChecked(stores[s], stores[s]).records = stores[s].records

\* C3's case: "S" has just been merged into "T", which holds the records of two
\* couples, one of them with two records.
C3_Witness ==
    /\ lastCall.op = "plus"
    /\ lastCall.other = "S"
    /\ Len(stores["S"].records) = 2
    /\ Len(stores["T"].records) = 2
    /\ Len(getCouple(stores["T"], "A", "B")) = 2
    /\ Len(getCouple(stores["S"], "A", "B")) = 1

Symmetric(st) ==
    \A a, b \in Ids :
        /\ hasCouple(st, a, b) = hasCouple(st, b, a)
        /\ getCouple(st, a, b) = getCouple(st, b, a)

\* every unordered couple has at most one entry of the records map
OneEntryPerCouple(st) ==
    \A i, j \in 1..Len(st.records) :
        i # j => /\ st.records[i].keys # st.records[j].keys
                 /\ st.records[i].keys # <<st.records[j].keys[2], st.records[j].keys[1]>>

\* C4: the lookup of a couple is symmetric, and add of a record that no record of
\* its couple equals appends it to the array found under the couple in either
\* order, with no second entry for the couple.
C4_SymmetricLookup ==
    [][ /\ \A s \in StoreNames : Symmetric(stores'[s]) /\ OneEntryPerCouple(stores'[s])
        /\ (lastCall'.op = "add" /\ ~HoldsEqual(stores[lastCall'.self], lastCall'.psq))
            => getCouple(stores'[lastCall'.self], lastCall'.psq.ids[2], lastCall'.psq.ids[1])
                = Append(getCouple(stores[lastCall'.self], lastCall'.psq.ids[2],
                                   lastCall'.psq.ids[1]), lastCall'.psq)
      ]_vars

\* C4's case: a record of couple (B, A) has been added to the array stored under
\* the keys (A, B), which now holds two records.
C4_Witness ==
    /\ lastCall.op = "add"
    /\ lastCall.psq.ids = <<"B", "A">>
    /\ Len(stores["T"].records) = 1
    /\ stores["T"].records[1].keys = <<"A", "B">>
    /\ Len(stores["T"].records[1].value) = 2
    /\ stores["T"].records[1].value[2] = lastCall.psq

\* the rows the loop of trim goes through: the indices of both arrays
Rows == 1..Min(Len(lowQueryParam), Len(highQueryParam))

\* the four conditions of the specification on one record
Passes(data, o) ==
    /\ NumGe(simPct(data), o.simPct)
    /\ NumGe(idPct(data), o.idPct)
    /\ NumGe(cvPct(data), o.cvPct)
    /\ NumLe(eValue(data), o.eValue)

\* C5: after trim without exp_methods and without taxons, the two records of a
\* row are valid if and only if each passes the four thresholds.
C5_ThresholdsDecide ==
    (last.op = "trim" /\ ~last.o.exp_methods.def /\ ~last.o.taxons.def) =>
        \A i \in Rows :
            (lowQueryParam[i].valid /\ highQueryParam[i].valid)
                <=> (Passes(lowQueryParam[i].data, last.o)
                        /\ Passes(highQueryParam[i].data, last.o))

ValidOf(s) == [i \in 1..Len(s) |-> s[i].valid]
DataOf(s) == [i \in 1..Len(s) |-> s[i].data]
GroupsValidOf(m) == [i \in 1..Len(m) |-> ValidOf(m[i])]
GroupsDataOf(m) == [i \in 1..Len(m) |-> DataOf(m[i])]

\* C6: trim with logged = true leaves the validity flags of every record and of
\* every MitabParameter that trim with logged = false leaves, from the same
\* state and with the same other options.
C6_LoggedAgrees ==
    [][ last'.op = "trim" =>
          LET r == Trim(lowQueryParam, highQueryParam, mitabCouples,
                        [last'.o EXCEPT !.logged = ~@])
          IN  /\ ValidOf(r.low) = ValidOf(lowQueryParam')
              /\ ValidOf(r.high) = ValidOf(highQueryParam')
              /\ GroupsValidOf(r.mitab) = GroupsValidOf(mitabCouples')
      ]_vars

\* one of the four values of the record is NaN
HasNaN(data) ==
    \/ simPct(data).k = "nan"
    \/ idPct(data).k = "nan"
    \/ cvPct(data).k = "nan"
    \/ eValue(data).k = "nan"

\* C7: after trim, a row one of whose records has a NaN value is invalid.
C7_NaNInvalid ==
    last.op = "trim" =>
        \A i \in Rows :
            (HasNaN(lowQueryParam[i].data) \/ HasNaN(highQueryParam[i].data))
                => (~lowQueryParam[i].valid /\ ~highQueryParam[i].valid)

RECURSIVE Surviving(_, _, _)
\* the elements of s whose index is not in the set M, from index i on
Surviving(s, M, i) ==
    IF i > Len(s) THEN <<>>
    ELSE (IF i \in M THEN <<>> ELSE <<s[i]>>) \o Surviving(s, M, i + 1)

\* rows i and j have the same low vector and the same high vector
Identical(i, j) ==
    /\ lowQueryParam[i].data = lowQueryParam[j].data
    /\ highQueryParam[i].data = highQueryParam[j].data

\* rows i and j have the same key
SameKey(i, j) ==
    Hash(lowQueryParam[i].data, highQueryParam[i].data)
        = Hash(lowQueryParam[j].data, highQueryParam[j].data)

\* the indices the pass of the trim step has marked
Marked == {i \in 1..last'.n : InSeq(i, last'.to_remove)}

\* the flags the pass of the trim step leaves when nothing is removed
Unremoved ==
    Trim(lowQueryParam, highQueryParam, mitabCouples, [last'.o EXCEPT !.definitive = FALSE])

\* C8: trim with definitive = false keeps the three arrays' lengths and order;
\* trim with definitive = true removes from the three arrays the indices the pass
\* marked, which are the rows that ended invalid and, with destroy_identical,
\* the later duplicates, and keeps the others in order.
C8_RemovesMarked ==
    [][ last'.op = "trim" =>
          IF ~last'.o.definitive
          THEN /\ DataOf(lowQueryParam') = DataOf(lowQueryParam)
               /\ DataOf(highQueryParam') = DataOf(highQueryParam)
               /\ GroupsDataOf(mitabCouples') = GroupsDataOf(mitabCouples)
          ELSE /\ DataOf(lowQueryParam') = DataOf(Surviving(lowQueryParam, Marked, 1))
               /\ DataOf(highQueryParam') = DataOf(Surviving(highQueryParam, Marked, 1))
               /\ GroupsDataOf(mitabCouples')
                    = GroupsDataOf(Surviving(mitabCouples, Marked, 1))
               /\ Marked = {i \in 1..last'.n :
                              \/ ~Unremoved.low[i].valid
                              \/ ~Unremoved.high[i].valid
                              \/ /\ last'.o.destroy_identical
                                 /\ \E j \in 1..(i - 1) : Identical(j, i)}
      ]_vars

\* C9: a second trim with the options of the trim just made leaves the validity
\* flags of the low and high records as they are.
C9_TrimIdempotent ==
    last.op = "trim" =>
        LET r == Trim(lowQueryParam, highQueryParam, mitabCouples, last.o)
        IN  /\ ValidOf(r.low) = ValidOf(lowQueryParam)
            /\ ValidOf(r.high) = ValidOf(highQueryParam)

\* C9's case: a trim with a taxons filter has left a first row valid and has
\* invalidated a second row that passes the thresholds.
C9_Witness ==
    /\ last.op = "trim"
    /\ last.o.taxons.def
    /\ ~last.o.definitive
    /\ Len(lowQueryParam) = 2
    /\ Len(highQueryParam) = 2
    /\ lowQueryParam[1].valid
    /\ ~lowQueryParam[2].valid
    /\ lowQueryParam[2].data = VecGood
    /\ highQueryParam[2].data = VecGood
    /\ last.o.simPct = Fin(0, 1)

\* trim({definitive: true, destroy_identical: true})
DedupeCompact == [DefaultOptions EXCEPT !.definitive = TRUE, !.destroy_identical = TRUE]

\* C10 as stated: trim({destroy_identical: true, definitive: true}) removes, of
\* two identical rows, the later one and keeps the earlier one.
C10_RemovesOneOfTwo ==
    [][ (last'.op = "trim" /\ last'.o = DedupeCompact) =>
          /\ Len(lowQueryParam') = Len(lowQueryParam) - Cardinality(Marked)
          /\ \A i, j \in 1..last'.n :
                (i < j /\ Identical(i, j)) => (j \in Marked /\ i \notin Marked)
      ]_vars

\* C10 as amended: trim with destroy_identical and definitive, and neither
\* exp_methods nor taxons, removes the later of two identical rows, and keeps the
\* earlier one exactly when it ends the pass valid and no row before it has its key.
C10_RemovesLaterOfTwo ==
    [][ (last'.op = "trim" /\ last'.o.definitive /\ last'.o.destroy_identical
            /\ ~last'.o.exp_methods.def /\ ~last'.o.taxons.def) =>
          /\ Len(lowQueryParam') = Len(lowQueryParam) - Cardinality(Marked)
          /\ Len(highQueryParam') = Len(highQueryParam) - Cardinality(Marked)
          /\ \A i, j \in 1..last'.n :
                (i < j /\ Identical(i, j)) =>
                    /\ j \in Marked
                    /\ i \notin Marked <=>
                          /\ Unremoved.low[i].valid
                          /\ Unremoved.high[i].valid
                          /\ ~\E k \in 1..(i - 1) : SameKey(k, i)
      ]_vars

\* C10's case: the pass went through two rows with one key, marked the second
\* one only and removed it; the first one is left, valid.
C10_Witness ==
    /\ last.op = "trim"
    /\ last.o = DedupeCompact
    /\ last.n = 2
    /\ Cardinality(last.hashes) = 1
    /\ last.to_remove = <<2>>
    /\ Len(lowQueryParam) = 1
    /\ Len(highQueryParam) = 1
    /\ lowQueryParam[1].valid
    /\ highQueryParam[1].valid

\* the store holds, under the couple of psq, a record equal to psq
Holds(st, psq) ==
    \E j \in 1..Len(getCouple(st, psq.ids[1], psq.ids[2])) :
        equal(getCouple(st, psq.ids[1], psq.ids[2])[j], psq)

\* C11: after a merge, self holds a record equal to every record of other,
\* whatever the publications registered in self; after add, self holds a record
\* equal to the one added.
C11_ConflictNeverBlocks ==
    [][ /\ lastCall'.op \in {"plus", "plusChecked"} =>
              \A j \in 1..Len(Flatten(stores[lastCall'.other].records)) :
                  Holds(stores'[lastCall'.self],
                        Flatten(stores[lastCall'.other].records)[j])
        /\ lastCall'.op = "add" => Holds(stores'[lastCall'.self], lastCall'.psq)
      ]_vars

\* C12: the set made by from of the parsed toString of a set has the valid low
\* rows and the valid high rows of that set, in order and flagged valid, and its
\* visible flag.
C12_RoundTrip ==
    [][ last'.op = "restore" =>
          /\ lowQueryParam' = FilterValid(lowQueryParam)
          /\ highQueryParam' = FilterValid(highQueryParam)
          /\ \A i \in 1..Len(lowQueryParam') : lowQueryParam'[i].valid
          /\ \A i \in 1..Len(highQueryParam') : highQueryParam'[i].valid
          /\ visible' = visible
      ]_vars

\* the records of "T", in the order of iteration
Stored == Flatten(stores["T"].records)

\* the positions in Stored of the records that have a pair
Paired == {k \in 1..Len(Stored) : uniprotPair(Stored[k], k).def}

\* the distinct pairs of the records of "T"
Pairs == {uniprotPair(Stored[k], k).ids : k \in Paired}

\* C13: what topology() returned has as nodes the identifiers of the pairs of
\* the stored records, and as edges one bucket for each distinct pair, holding
\* every stored record with that pair; records without a pair are in no bucket.
C13_OneBucketPerPair ==
    graph.def =>
        /\ graph.nodes = UNION {{pr[1], pr[2]} : pr \in Pairs}
        /\ Len(graph.edges) = Cardinality(Pairs)
        /\ \A pr \in Pairs :
              \E j \in 1..Len(graph.edges) :
                  /\ graph.edges[j].key.ids = pr
                  /\ {graph.edges[j].value[n] : n \in 1..Len(graph.edges[j].value)}
                        = {Stored[k] : k \in {m \in Paired : uniprotPair(Stored[m], m).ids = pr}}

\* C14 as stated: once flushRaw() has been called on a store, none of its
\* records has a raw line, in every later state.
C14_NoRawAfterFlush ==
    \A s \in flushed :
        \A k \in 1..Len(Flatten(stores[s].records)) :
            Flatten(stores[s].records)[k].raw = NoRaw

\* the records of store st, as a set
RecordsOf(st) == {Flatten(st.records)[k] : k \in 1..Len(Flatten(st.records))}

\* C14 as amended: flushRaw() leaves no record of the store with a raw line and
\* keep_raw off; keep_raw stays off in every later state, and the records that
\* readLines makes after it have no raw line.
C14_FlushIsOneWay ==
    [][ /\ \A s \in flushed' : ~stores'[s].keep_raw
        /\ lastCall'.op = "flushRaw" =>
              \A r \in RecordsOf(stores'[lastCall'.self]) : r.raw = NoRaw
        /\ (lastCall'.op = "readLines" /\ lastCall'.self \in flushed) =>
              \A r \in RecordsOf(stores'[lastCall'.self]) \ RecordsOf(stores[lastCall'.self]) :
                  r.raw = NoRaw
      ]_vars

\* C14's case: after flushRaw() on "T", readLines has put records in "T", none
\* with a raw line, beside a record added with its raw line.
C14_Witness ==
    /\ "T" \in flushed
    /\ lastCall.op = "readLines"
    /\ lastCall.self = "T"
    /\ ~stores["T"].keep_raw
    /\ \E r \in RecordsOf(stores["T"]) : r.raw # NoRaw
    /\ \E r \in RecordsOf(stores["T"]) : r.raw = NoRaw /\ r.content = <<"3">>

\* C15: after trim with destroy_identical and without definitive, of the rows
\* with the same low vector and the same high vector at most one is valid.
C15_OneOfIdenticalValid ==
    (last.op = "trim" /\ last.o.destroy_identical /\ ~last.o.definitive) =>
        \A i, j \in Rows :
            (i < j /\ Identical(i, j)) =>
                ~(lowQueryParam[i].valid /\ lowQueryParam[j].valid)

\* the line d of MI Tab data passes the evidence filter of the options o
Survives(d, o) ==
    /\ o.exp_methods.def => d.interactionDetectionMethod \in o.exp_methods.set
    /\ o.taxons.def =>
          IF DEFAULT_TAXON_SEARCH_MODE = TAXON_EVERY
          THEN \A n \in 1..Len(d.taxid) : d.taxid[n] \in o.taxons.set
          ELSE \E n \in 1..Len(d.taxid) : d.taxid[n] \in o.taxons.set

\* C16: after trim with exp_methods or taxons, a row is valid if and only if
\* its two records pass the four thresholds and a line of its group passes the
\* evidence filter; a row with an empty group or with no group is invalid.
C16_ValidIffEvidence ==
    (last.op = "trim" /\ (last.o.exp_methods.def \/ last.o.taxons.def)) =>
        \A i \in Rows :
            (lowQueryParam[i].valid /\ highQueryParam[i].valid)
                <=> /\ Passes(lowQueryParam[i].data, last.o)
                    /\ Passes(highQueryParam[i].data, last.o)
                    /\ i <= Len(mitabCouples)
                    /\ \E j \in 1..Len(mitabCouples[i]) :
                          Survives(mitabCouples[i][j].data, last.o)

\* C17: trim ends without raising an error, on every reachable set and with
\* every options object.
C17_TrimNeverThrows == last.op = "trim" => ~last.threw

\* C18: after trim without exp_methods and without taxons, every line of the
\* group of a row whose two records pass the thresholds of the call is valid,
\* whatever the trims made before.
C18_EvidenceReset ==
    (last.op = "trim" /\ ~last.o.exp_methods.def /\ ~last.o.taxons.def) =>
        \A i \in Rows :
            (/\ Passes(lowQueryParam[i].data, last.o)
             /\ Passes(highQueryParam[i].data, last.o)
             /\ i <= Len(mitabCouples)) =>
                \A j \in 1..Len(mitabCouples[i]) : mitabCouples[i][j].valid

\* C18's case: a trim with thresholds only has left valid, in a row that passes
\* them, a line that the filters of the model's other trims reject.
C18_Witness ==
    /\ last.op = "trim"
    /\ ~last.o.exp_methods.def
    /\ ~last.o.taxons.def
    /\ ~last.o.definitive
    /\ Len(lowQueryParam) >= 1
    /\ Passes(lowQueryParam[1].data, last.o)
    /\ Passes(highQueryParam[1].data, last.o)
    /\ Len(mitabCouples) >= 1
    /\ Len(mitabCouples[1]) = 1
    /\ mitabCouples[1][1].valid
    /\ mitabCouples[1][1].data.interactionDetectionMethod = "MI:0096"

\* the number of times trim has pushed index j on to_remove
Pushed(j) == Cardinality({n \in 1..Len(last'.to_remove) : last'.to_remove[n] = j})

\* the number of times trim pushes index j because the row ended invalid
PushedInvalid(j) ==
    IF Unremoved.low[j].valid /\ Unremoved.high[j].valid THEN 0 ELSE 1

\* C19: trim with destroy_identical marks a row as a duplicate only if a row
\* before it has the same low vector and the same high vector, element by
\* element.
C19_DuplicateOnlyIfIdentical ==
    [][ (last'.op = "trim" /\ last'.o.destroy_identical) =>
          \A j \in 1..last'.n :
              Pushed(j) > PushedInvalid(j) => \E i \in 1..(j - 1) : Identical(i, j)
      ]_vars

====
